---- MODULE Spec2Model ----
(***************************************************************************)
(* Model of the serving side of netradarshak (src/server.py): the Flask    *)
(* endpoints /caption/<lang>, /traffic and /ocr/<lang>, the lazy model     *)
(* holders of _models with their init functions, the three pipeline        *)
(* functions and translate_text.  Requests are handled by concurrent       *)
(* worker threads (Flask's threaded development server); a thread's steps  *)
(* are the reads and writes of the shared dictionary _models, in the order *)
(* the source performs them.                                               *)
(*                                                                         *)
(* And of the capture side: the three client programs (src/client_RPI.py,  *)
(* src/client_RPI_serial.py, src/client.py), each a process that owns a    *)
(* camera and runs capture cycles (device read, upload, speech).  Spec is  *)
(* the server with no client running; ClientSpec is one client program     *)
(* running against a server the model does not look into.  NtSpec is the   *)
(* server on a Windows host, where os.remove of the temporary upload can   *)
(* raise; ClientLiveSpec is the client with its capture timer running for  *)
(* ever and the scheduling of its threads assumed fair.                    *)
(***************************************************************************)
EXTENDS Integers, FiniteSets, Sequences, TLC

\* ------------------------------------------------------------------------
\* Bounds of the model
\* ------------------------------------------------------------------------
\* number of requests the server receives in a behaviour
MaxRequests == 2
\* number of events a client program receives from outside in a behaviour:
\* button presses, key presses, expiries of the capture timer
MaxEvents == 3

\* The threaded server handles each request in a thread of its own.  The
\* model has two handler threads, so that at most two requests are in flight
\* at a time; a thread that has sent its response takes the next request.
Threads == {"t1", "t2"}

\* ------------------------------------------------------------------------
\* Values
\* ------------------------------------------------------------------------
\* Python's None, for a holder of _models and for a thread-local reference
None == 0

Routes == {"caption", "traffic", "ocr"}
Methods == {"GET", "POST"}
\* <lang> path segments: a canonical code, an alias in mixed case
Langs == {"en", "Hindi"}
\* the multipart field that carries the upload ("none": neither is present)
Fields == {"image", "file", "none"}
Images == {"imgA", "imgB"}

\* backend kinds and the keys of _models each one owns
PipelineKinds == {"blip", "traffic_blip", "ocr"}
Kinds == PipelineKinds \cup {"translator"}
TwoKeyKinds == {"blip", "traffic_blip"}

\* a text in a language; every backend produces English
Txt(body) == [body |-> body, lang |-> "en"]
NoText == [body |-> "", lang |-> "none"]


\* ------------------------------------------------------------------------
\* State
\* ------------------------------------------------------------------------
VARIABLES
    arrived,    \* number of requests received so far
    models,     \* _models: key -> None or the handle stored under it
    libs,       \* which optional imports succeeded at module import time
    pc,         \* position of each handler thread
    req,        \* the inputs of the request each thread handles
    loc,        \* the local variables of each handler
    resp,       \* the response of each handler, once it has one
    tmpfiles,   \* threads whose request's temporary upload file exists on
                \* disk
    calls,      \* functions each handler has called for its request so far
    heavy,      \* per kind, number of heavy constructions attempted so far
    failed,     \* per kind, whether a heavy construction has raised so far
    \* the capture side
    program,          \* the client program that runs ("none": no client)
    units,            \* the units of work: the main thread and the threads
                      \* the button callbacks start
    capture_lock,     \* RPICaptureClient.capture_lock: its holder, or Free
    camera,           \* the cv2.VideoCapture: "open" or "released"
    process,          \* "running", or how the process ended
    photo,            \* the frame stored in latest.jpg (NoFrame: none yet)
    current_endpoint, \* SerialClient.current_endpoint
    stop,             \* SerialClient._stop
    events,           \* number of outside events received so far
    failedUpload,     \* whether an upload has failed so far
    lastKey,          \* the last key handled since the last upload
                      \* (NoKey: none)
    pressed,          \* the keys that select an endpoint, in the order
                      \* they were handled since the last device read
    spoken            \* a call of a speech function: its inputs and
                      \* what it did

serverVars == <<arrived, models, libs, pc, req, loc, resp, tmpfiles, calls, heavy, failed>>
clientVars == <<program, units, capture_lock, camera, process, photo,
                current_endpoint, stop, events, failedUpload, lastKey,
                pressed, spoken>>
vars == <<serverVars, clientVars>>

\* ------------------------------------------------------------------------
\* Utilities (pure functions of the source)
\* ------------------------------------------------------------------------
\* str.lower() on the path segments the model uses
Lower(s) == IF s = "Hindi" THEN "hindi" ELSE s

\* LANGUAGE_ALIASES
AliasKeys == {"en", "english", "hi", "hindi", "te", "telugu"}
LANGUAGE_ALIASES ==
    [k \in AliasKeys |->
        CASE k \in {"en", "english"} -> "en"
          [] k \in {"hi", "hindi"}   -> "hi"
          [] k \in {"te", "telugu"}  -> "te"]

\* a variant of normalize_language that looks the segment up as it is written
normalize_languageNoLower(lang) ==
    IF lang = "" THEN "en"
    ELSE IF lang \in AliasKeys THEN LANGUAGE_ALIASES[lang] ELSE lang

\* normalize_language(lang)
normalize_language(lang) ==
    IF lang = "" THEN "en"
    ELSE LET l == Lower(lang)
         IN  IF l \in AliasKeys THEN LANGUAGE_ALIASES[l] ELSE l

\* the keys of _models
ModelKeys == {"blip_processor", "blip_model", "traffic_blip_processor",
              "traffic_blip_model", "ocr_reader", "translator"}

\* the key an init function tests and returns first (the only one, for the
\* OCR reader and the translator)
FirstKey(k) ==
    CASE k = "blip"         -> "blip_processor"
      [] k = "traffic_blip" -> "traffic_blip_processor"
      [] k = "ocr"          -> "ocr_reader"
      [] k = "translator"   -> "translator"

\* the model key of the two BLIP kinds
SecondKey(k) ==
    CASE k = "blip"         -> "blip_model"
      [] k = "traffic_blip" -> "traffic_blip_model"

\* the name of the init function of a kind
\* the holders of a kind in _models
KeysOf(k) ==
    IF k \in TwoKeyKinds THEN {FirstKey(k), SecondKey(k)} ELSE {FirstKey(k)}

InitName(k) ==
    CASE k = "blip"         -> "init_blip"
      [] k = "traffic_blip" -> "init_traffic_blip"
      [] k = "ocr"          -> "init_ocr"
      [] k = "translator"   -> "init_translator"

\* the import an init function needs: BlipProcessor,
\* BlipForConditionalGeneration and torch are set by one try block, so they
\* are None together
LibPresent(k) ==
    CASE k \in TwoKeyKinds -> libs.blip
      [] k = "ocr"         -> libs.easyocr
      [] k = "translator"  -> libs.translator

\* the pipeline each route runs
PipelineOf(route) ==
    CASE route = "caption" -> "blip"
      [] route = "traffic" -> "traffic_blip"
      [] route = "ocr"     -> "ocr"

\* confidences, in hundredths (0.5 is 50)
CaptionFallbackConf == 50
CaptionLiveConf == 85
OcrUnavailableConf == 80
OcrLiveConf == 90
OcrThrowConf == 0

SampleCaption == Txt("A sample caption describing the scene.")
SampleOcr == Txt("Sample OCR: The quick brown fox jumps over the lazy dog.")

\* what the capability answers for an image: the decoded caption of the
\* generated tokens, or the words readtext found joined by spaces (imgB
\* shows no text, so readtext returns no words and the join is empty)
LiveText(k, image) ==
    CASE k = "blip"         -> IF image = "imgA" THEN Txt("a dog running")
                                                 ELSE Txt("a red car")
      [] k = "traffic_blip" -> IF image = "imgA" THEN Txt("a green light")
                                                 ELSE Txt("a stop sign")
      [] k = "ocr"          -> IF image = "imgA" THEN Txt("EXIT") ELSE Txt("")

\* a variant of UnavailableResult that answers like the except clause of the
\* same function
UnavailableResultLikeExcept(k) ==
    IF k \in TwoKeyKinds
    THEN [text |-> SampleCaption, conf |-> CaptionFallbackConf]
    ELSE [text |-> Txt(""), conf |-> OcrThrowConf]

\* the pipeline function's result when init returned None
\* (generate_caption_from_image_path, generate_traffic_caption_from_image_path,
\* ocr_from_image_path)
UnavailableResult(k) ==
    IF k \in TwoKeyKinds
    THEN [text |-> SampleCaption, conf |-> CaptionFallbackConf]
    ELSE [text |-> SampleOcr, conf |-> OcrUnavailableConf]

\* the pipeline function's result when the capability call raised
ThrowResult(k) ==
    IF k \in TwoKeyKinds
    THEN [text |-> SampleCaption, conf |-> CaptionFallbackConf]
    ELSE [text |-> Txt(""), conf |-> OcrThrowConf]

\* the pipeline function's result when the capability answered
LiveResult(k, image) ==
    IF k \in TwoKeyKinds
    THEN [text |-> LiveText(k, image), conf |-> CaptionLiveConf]
    ELSE [text |-> LiveText(k, image), conf |-> OcrLiveConf]

\* `processor is None or model is None` / `reader is None`
IsUnavailable(k, first, second) ==
    first = None \/ (k \in TwoKeyKinds /\ second = None)

\* a variant of PipelineResult without the try/except around the capability
\* call
PipelineResultNoExcept(k, first, second, image, raises) ==
    IF first = None \/ (k \in TwoKeyKinds /\ second = None)
    THEN [raised |-> FALSE, text |-> UnavailableResult(k).text,
          conf |-> UnavailableResult(k).conf]
    ELSE IF raises THEN [raised |-> TRUE, text |-> NoText, conf |-> 0]
    ELSE [raised |-> FALSE, text |-> LiveResult(k, image).text,
          conf |-> LiveResult(k, image).conf]

\* generate_caption_from_image_path, generate_traffic_caption_from_image_path
\* and ocr_from_image_path after their init call: first and second are what
\* init returned, raises says whether the capability call raises.  raised
\* tells whether the function itself raises to the endpoint.
PipelineResult(k, first, second, image, raises) ==
    LET res == IF IsUnavailable(k, first, second) THEN UnavailableResult(k)
               ELSE IF raises THEN ThrowResult(k)
               ELSE LiveResult(k, image)
    IN  [raised |-> FALSE, text |-> res.text, conf |-> res.conf]

\* translator.translate(text, dest=target_lang).text: the text in the
\* destination language
TranslateCap(text, target_lang) == [body |-> text.body, lang |-> target_lang]

\* a variant of translate_text without the try/except around
\* translator.translate
translate_textNoExcept(text, target_lang, translator, raises) ==
    IF translator = None THEN [raised |-> FALSE, text |-> text]
    ELSE IF raises THEN [raised |-> TRUE, text |-> NoText]
    ELSE [raised |-> FALSE, text |-> TranslateCap(text, target_lang)]

\* translate_text after its init_translator call: translator is what
\* init_translator returned, raises says whether translator.translate raises
translate_text(text, target_lang, translator, raises) ==
    IF translator = None THEN [raised |-> FALSE, text |-> text]
    ELSE IF raises THEN [raised |-> FALSE, text |-> text]
    ELSE [raised |-> FALSE, text |-> TranslateCap(text, target_lang)]

\* the JSON bodies of the endpoints
HelpResponse ==
    [status |-> 200, body |-> "help", text |-> NoText, text_en |-> NoText,
     confidence |-> 0, language |-> "none"]
NoImageResponse ==
    [status |-> 400, body |-> "No image provided. Use multipart form 'image' or 'file'.",
     text |-> NoText, text_en |-> NoText, confidence |-> 0, language |-> "none"]
ResultResponse(text, text_en, conf, language) ==
    [status |-> 200, body |-> "result", text |-> text, text_en |-> text_en,
     confidence |-> conf, language |-> language]
\* Flask's answer to an exception that leaves the endpoint
ServerErrorResponse ==
    [status |-> 500, body |-> "Internal Server Error", text |-> NoText,
     text_en |-> NoText, confidence |-> 0, language |-> "none"]
NoResponse ==
    [status |-> 0, body |-> "none", text |-> NoText, text_en |-> NoText,
     confidence |-> 0, language |-> "none"]

\* a variant of IsGet for an endpoint without the GET branch
IsGetNever(method) == FALSE

\* request.method == 'GET'
IsGet(method) == method = "GET"

\* a variant of HasUpload for an endpoint without the final else branch
HasUploadAlways(field) == TRUE

\* 'image' in request.files or 'file' in request.files
HasUpload(field) == field \in {"image", "file"}

\* the multipart bodies a client sends: imgA under 'image', imgB under
\* 'file', or no upload at all
Uploads ==
    {[field |-> "image", image |-> "imgA"], [field |-> "file", image |-> "imgB"],
     [field |-> "none", image |-> "none"]}

\* the requests a client can send (/traffic has no <lang> segment, written
\* "" here)
RequestInputs ==
    { i \in [route : Routes, method : Methods, lang : Langs \cup {""},
             field : Fields, image : Images \cup {"none"}] :
        /\ (i.route = "traffic") <=> (i.lang = "")
        /\ [field |-> i.field, image |-> i.image] \in Uploads }

NoRequest == [route |-> "none", method |-> "none", lang |-> "",
              field |-> "none", image |-> "none"]

\* the handler's locals before it has assigned any
NoLocals ==
    [target_lang |-> "none", kind |-> "none", first |-> None, second |-> None,
     translator |-> None, handle |-> None, late |-> FALSE, text |-> NoText,
     conf |-> 0, via |-> "none", trvia |-> "none"]

\* ------------------------------------------------------------------------
\* Values of the capture side
\* ------------------------------------------------------------------------
\* the client programs: client_RPI.py with its GPIO button handlers,
\* client_RPI_serial.py, client.py
Programs == {"client_RPI", "client_RPI_serial", "client"}

\* The units of work.  Unit Main is the main thread: in client_RPI_serial
\* and client it runs the capture cycles, in client_RPI it sleeps while
\* each button callback starts a thread of its own, units 1, 2, ...
Main == 0
Units == 0 .. MaxEvents
ButtonUnits == Units \ {Main}

\* capture_lock when no thread holds it
Free == -1
\* latest.jpg before the first frame is written, a unit before its capture
NoFrame == 0

\* the endpoint of a new SerialClient, and of an iteration of client.main
\* in which 'd' was not pressed
DefaultEndpoint == "/caption/en"
\* the pin table of setup_gpio
PinEndpoints == {"/ocr/en", "/traffic", "/search"}
Endpoints == PinEndpoints \cup {DefaultEndpoint}
\* the keys the model presses: the three endpoint keys, quit, another key
Keys == {"1", "2", "3", "q", "x"}
\* the keys that select an endpoint
SelectKeys == {"1", "2", "3"}
NoKey == "none"

\* a unit that does not run (a button thread before its button is pressed)
NoUnit == [pc |-> "unborn", endpoint |-> "none", shot |-> "none",
           frame |-> NoFrame]

\* the texts a speech function is called with
Texts == {"", "a dog running"}
\* What the speech strategies do when they are tried.  gTTS with its
\* player: not imported, speaks, raises.  espeak: speaks, ends with a
\* non-zero status, is not installed (FileNotFoundError), cannot be run
\* (another OSError).
SpeakEnvs == [gtts : {"absent", "ok", "raises"},
              espeak : {"ok", "nonzero", "missing", "oserror"}]
\* no call of a speech function
NoSpeech == [called |-> FALSE, text |-> "", env |-> [gtts |-> "absent",
             espeak |-> "ok"], tried |-> <<>>, printed |-> FALSE,
             raised |-> FALSE]

\* no client program runs
ClientOff ==
    /\ program = "none"
    /\ units = [u \in Units |-> NoUnit]
    /\ capture_lock = Free
    /\ camera = "released"
    /\ process = "none"
    /\ photo = NoFrame
    /\ current_endpoint = "none"
    /\ stop = FALSE
    /\ events = 0
    /\ failedUpload = FALSE
    /\ lastKey = NoKey
    /\ pressed = <<>>
    /\ spoken = NoSpeech

\* ------------------------------------------------------------------------
\* Initial state: the module has been imported, no request has arrived
\* ------------------------------------------------------------------------
ServerInit ==
    /\ arrived = 0
    /\ models = [k \in ModelKeys |-> None]
    /\ libs \in [blip : BOOLEAN, easyocr : BOOLEAN, translator : BOOLEAN]
    /\ pc = [t \in Threads |-> "idle"]
    /\ req = [t \in Threads |-> NoRequest]
    /\ loc = [t \in Threads |-> NoLocals]
    /\ resp = [t \in Threads |-> NoResponse]
    /\ tmpfiles = {}
    /\ calls = [t \in Threads |-> {}]
    /\ heavy = [k \in Kinds |-> 0]
    /\ failed = [k \in Kinds |-> FALSE]

Init == ServerInit /\ ClientOff

\* The steps that read and write only the handler's own locals, response
\* and temporary file (the test of the import, the pipeline function's body
\* after init returned, translate_text's body after init_translator
\* returned, the end of the thread).  They commute with every step of the
\* other thread, so the model runs them as soon as they are reached instead
\* of interleaving them.  An init function is always entered from such a
\* step (the arrival with save_upload_to_temp, the pipeline function's
\* body), so its first read of _models is taken right after that step: the
\* other thread's steps are as well placed before the two as between them.
LocalPcs == {"init_check1", "init_lib", "pipe", "translate", "done"}
Scheduled(t) == \A u \in Threads \ {t} : pc[u] \notin LocalPcs

\* thread t takes the next request: the first thread that is free does
Arrives(t) ==
    /\ pc[t] = "idle"
    /\ arrived < MaxRequests
    /\ t = "t2" => pc["t1"] # "idle"
    /\ Scheduled(t)
    /\ arrived' = arrived + 1

\* target_lang = normalize_language(lang), the first statement of
\* caption_endpoint and ocr_endpoint; traffic_endpoint has no target_lang
TargetLang(i) ==
    IF i.route = "traffic" THEN "none" ELSE normalize_language(i.lang)

\* ------------------------------------------------------------------------
\* The endpoints, up to the call of the pipeline function
\* ------------------------------------------------------------------------
\* a GET: the usage descriptor
GetRequest(t) ==
    /\ Arrives(t)
    /\ \E i \in RequestInputs :
        /\ IsGet(i.method)
        /\ req' = [req EXCEPT ![t] = i]
        /\ loc' = [loc EXCEPT ![t].target_lang = TargetLang(i)]
    /\ resp' = [resp EXCEPT ![t] = HelpResponse]
    /\ pc' = [pc EXCEPT ![t] = "done"]
    /\ UNCHANGED <<models, libs, tmpfiles, calls, heavy, failed, clientVars>>

\* a POST with neither an 'image' nor a 'file' field: 400
PostNoImage(t) ==
    /\ Arrives(t)
    /\ \E i \in RequestInputs :
        /\ ~IsGet(i.method)
        /\ ~HasUpload(i.field)
        /\ req' = [req EXCEPT ![t] = i]
        /\ loc' = [loc EXCEPT ![t].target_lang = TargetLang(i)]
    /\ resp' = [resp EXCEPT ![t] = NoImageResponse]
    /\ pc' = [pc EXCEPT ![t] = "done"]
    /\ UNCHANGED <<models, libs, tmpfiles, calls, heavy, failed, clientVars>>

\* a POST with an upload: save_upload_to_temp, then the pipeline function
\* is entered and calls the init function of its kind.  target_lang is not
\* used before translator.translate is called or the response is built, so
\* the <lang> segment of the path is left open here and drawn in Translate.
PostSave(t) ==
    /\ Arrives(t)
    /\ \E i \in RequestInputs :
        /\ ~IsGet(i.method)
        /\ HasUpload(i.field)
        /\ req' = [req EXCEPT ![t] = [i EXCEPT !.lang = ""]]
        /\ loc' = [loc EXCEPT ![t].kind = PipelineOf(i.route)]
    /\ tmpfiles' = tmpfiles \cup {t}
    /\ calls' = [calls EXCEPT ![t] = {"save_upload_to_temp", "pipeline"}]
    /\ pc' = [pc EXCEPT ![t] = "init_check1"]
    /\ UNCHANGED <<models, libs, resp, heavy, failed, clientVars>>

\* ------------------------------------------------------------------------
\* The init functions (init_blip, init_traffic_blip, init_ocr,
\* init_translator), one step per read or write of _models
\* ------------------------------------------------------------------------
\* `_models[...] is None`, the first operand of the test that guards the
\* initialization: the model holder for the BLIP kinds.  loc[t].late notes
\* for the length of this call whether a heavy construction of the kind had
\* already failed when the init function was called.
InitCheck1(t) ==
    /\ pc[t] = "init_check1"
    /\ Scheduled(t)
    /\ LET k == loc[t].kind
           key == IF k \in TwoKeyKinds THEN SecondKey(k) ELSE FirstKey(k)
       IN  /\ calls' = [calls EXCEPT ![t] = @ \cup {InitName(k)}]
           /\ loc' = [loc EXCEPT ![t].late = failed[k]]
           /\ pc' = [pc EXCEPT ![t] =
                        IF models[key] = None THEN "init_lib"
                        ELSE IF k \in TwoKeyKinds THEN "init_check2"
                        ELSE "init_ret1"]
    /\ UNCHANGED <<models, libs, arrived, req, resp, tmpfiles, heavy, failed, clientVars>>

\* `or _models[..._processor] is None`, evaluated when the model is set
InitCheck2(t) ==
    /\ pc[t] = "init_check2"
    /\ Scheduled(t)
    /\ pc' = [pc EXCEPT ![t] =
                IF models[FirstKey(loc[t].kind)] = None THEN "init_lib"
                ELSE "init_ret1"]
    /\ UNCHANGED <<models, libs, arrived, req, loc, resp, tmpfiles, calls, heavy, failed, clientVars>>

\* the test of the optional import.  When it is missing the holders are set
\* to None (they hold None already: nothing can have been constructed) and
\* init_blip, init_traffic_blip and init_ocr return None at once, while
\* init_translator falls through to its return statement.
InitLib(t) ==
    /\ pc[t] = "init_lib"
    /\ Scheduled(t)
    /\ LET k == loc[t].kind
       IN  IF LibPresent(k)
           THEN /\ pc' = [pc EXCEPT ![t] = "init_heavy1"]
                /\ UNCHANGED <<models, loc>>
           ELSE /\ models' = [key \in ModelKeys |->
                                IF \/ key = FirstKey(k)
                                   \/ (k \in TwoKeyKinds /\ key = SecondKey(k))
                                THEN None ELSE models[key]]
                /\ IF k = "translator"
                   THEN /\ pc' = [pc EXCEPT ![t] = "init_ret1"]
                        /\ loc' = loc
                   ELSE /\ pc' = [pc EXCEPT ![t] = "pipe"]
                        /\ loc' = [loc EXCEPT ![t].first = None,
                                              ![t].second = None,
                                              ![t].late = FALSE]
    /\ UNCHANGED <<libs, arrived, req, resp, tmpfiles, calls, heavy, failed, clientVars>>

\* the heavy construction: BlipProcessor.from_pretrained,
\* AutoProcessor.from_pretrained, easyocr.Reader, Translator().  It returns
\* a new object, which is stored, or raises.
InitHeavy1(t) ==
    /\ pc[t] = "init_heavy1"
    /\ Scheduled(t)
    /\ LET k == loc[t].kind
           h == heavy[k] + 1
       IN  /\ heavy' = [heavy EXCEPT ![k] = h]
           /\ \E raises \in BOOLEAN :
                IF raises
                THEN /\ failed' = [failed EXCEPT ![k] = TRUE]
                     /\ pc' = [pc EXCEPT ![t] = "init_exc1"]
                     /\ UNCHANGED <<models, loc>>
                ELSE /\ models' = [models EXCEPT ![FirstKey(k)] = h]
                     /\ loc' = [loc EXCEPT ![t].handle =
                                    IF k \in TwoKeyKinds THEN h ELSE None]
                     /\ pc' = [pc EXCEPT ![t] =
                                IF k \in TwoKeyKinds THEN "init_heavy2"
                                ELSE "init_ret1"]
                     /\ UNCHANGED failed
    /\ UNCHANGED <<libs, arrived, req, resp, tmpfiles, calls, clientVars>>

\* the second construction of the BLIP kinds: the model's from_pretrained
\* (loc[t].handle numbers the attempt, so that the objects of one attempt are
\* told from those of another)
InitHeavy2(t) ==
    /\ pc[t] = "init_heavy2"
    /\ Scheduled(t)
    /\ LET k == loc[t].kind
       IN  \E raises \in BOOLEAN :
                IF raises
                THEN /\ failed' = [failed EXCEPT ![k] = TRUE]
                     /\ pc' = [pc EXCEPT ![t] = "init_exc1"]
                     /\ UNCHANGED models
                ELSE /\ models' = [models EXCEPT ![SecondKey(k)] = loc[t].handle]
                     /\ pc' = [pc EXCEPT ![t] = "init_eval"]
                     /\ UNCHANGED failed
    /\ loc' = [loc EXCEPT ![t].handle = None]
    /\ UNCHANGED <<libs, arrived, req, resp, tmpfiles, calls, heavy, clientVars>>

\* _models[..._model].eval(): reads the holder again, and raises
\* AttributeError when another request has reset it to None meanwhile
InitEval(t) ==
    /\ pc[t] = "init_eval"
    /\ Scheduled(t)
    /\ LET k == loc[t].kind
       IN  IF models[SecondKey(k)] = None
           THEN /\ failed' = [failed EXCEPT ![k] = TRUE]
                /\ pc' = [pc EXCEPT ![t] = "init_exc1"]
           ELSE /\ pc' = [pc EXCEPT ![t] = "init_ret1"]
                /\ UNCHANGED failed
    /\ UNCHANGED <<models, libs, arrived, req, loc, resp, tmpfiles, calls, heavy, clientVars>>

\* except Exception: the first holder is reset to None
InitExc1(t) ==
    /\ pc[t] = "init_exc1"
    /\ Scheduled(t)
    /\ LET k == loc[t].kind
       IN  /\ models' = [models EXCEPT ![FirstKey(k)] = None]
           /\ pc' = [pc EXCEPT ![t] =
                        IF k \in TwoKeyKinds THEN "init_exc2" ELSE "init_ret1"]
    /\ UNCHANGED <<libs, arrived, req, loc, resp, tmpfiles, calls, heavy, failed, clientVars>>

\* except Exception, BLIP kinds: the model holder is reset to None
InitExc2(t) ==
    /\ pc[t] = "init_exc2"
    /\ Scheduled(t)
    /\ models' = [models EXCEPT ![SecondKey(loc[t].kind)] = None]
    /\ pc' = [pc EXCEPT ![t] = "init_ret1"]
    /\ UNCHANGED <<libs, arrived, req, loc, resp, tmpfiles, calls, heavy, failed, clientVars>>

\* return _models[...]: the first holder is read
InitRet1(t) ==
    /\ pc[t] = "init_ret1"
    /\ Scheduled(t)
    /\ LET k == loc[t].kind
       IN  /\ loc' = IF k = "translator"
                     THEN [loc EXCEPT ![t].translator = models[FirstKey(k)],
                                      ![t].late = FALSE]
                     ELSE [loc EXCEPT ![t].first = models[FirstKey(k)],
                                      ![t].late = FALSE]
           /\ pc' = [pc EXCEPT ![t] =
                        CASE k \in TwoKeyKinds -> "init_ret2"
                          [] k = "ocr"         -> "pipe"
                          [] k = "translator"  -> "translate"]
    /\ UNCHANGED <<models, libs, arrived, req, resp, tmpfiles, calls, heavy, failed, clientVars>>

\* return ..., _models[..._model]: the model holder is read
InitRet2(t) ==
    /\ pc[t] = "init_ret2"
    /\ Scheduled(t)
    /\ loc' = [loc EXCEPT ![t].second = models[SecondKey(loc[t].kind)]]
    /\ pc' = [pc EXCEPT ![t] = "pipe"]
    /\ UNCHANGED <<models, libs, arrived, req, resp, tmpfiles, calls, heavy, failed, clientVars>>

\* ------------------------------------------------------------------------
\* The pipeline functions and translate_text, and the rest of the endpoints
\* ------------------------------------------------------------------------
\* a variant of CallsTranslate in which every endpoint translates
CallsTranslateAlways(route) == TRUE

\* the endpoints that pass the pipeline's text to translate_text:
\* caption_endpoint and ocr_endpoint do, traffic_endpoint returns it as it is
CallsTranslate(route) == route # "traffic"

\* os.name of the host the server runs on
Platforms == {"posix", "nt"}

\* whether os.remove(tmp) can raise.  On POSIX the handler's own file is
\* unlinked whoever has it open; on Windows the removal of a file that
\* another process has open raises PermissionError, and save_upload_to_temp
\* has started a Chrome on the file.
RemoveFails(platform) == IF platform = "nt" THEN BOOLEAN ELSE {FALSE}

\* the finally clause of the endpoints: os.remove(tmp) removes the file of
\* the request, or raises and `except Exception: pass` leaves the file
\* where it is
RemoveTemp(files, t, fails) == IF fails THEN files ELSE files \ {t}

\* a variant of CacheAfterCall in which a capability call that raises
\* discards the handles of its kind
CacheAfterCallDrops(m, k, via) ==
    [key \in ModelKeys |->
        IF via = "threw" /\ key \in KeysOf(k) THEN None ELSE m[key]]

\* _models after the call of a capability (model.generate, reader.readtext,
\* translator.translate): neither the try block nor the except clause of
\* the function that calls it assigns _models
CacheAfterCall(m, k, via) == m

\* what happened in the pipeline function, as the environment saw it
PipeVia(k, first, second, raises) ==
    IF IsUnavailable(k, first, second) THEN "unavailable"
    ELSE IF raises THEN "threw" ELSE "live"

\* The pipeline function after init returned: the None test, the call of the
\* capability and its except clause.  Then traffic_endpoint returns its
\* response and removes the temporary file (finally), while caption_endpoint
\* and ocr_endpoint call translate_text, which calls init_translator.  An
\* exception leaving the pipeline function leaves the endpoint through its
\* finally clause.
PipeOn(t, platform) ==
    /\ pc[t] = "pipe"
    /\ Scheduled(t)
    /\ \E raises \in BOOLEAN, fails \in RemoveFails(platform) :
        LET k == loc[t].kind
            out == PipelineResult(k, loc[t].first, loc[t].second,
                                  req[t].image, raises)
            via == PipeVia(k, loc[t].first, loc[t].second, raises)
        IN  /\ models' = CacheAfterCall(models, k, via)
            /\ IF out.raised
               THEN /\ resp' = [resp EXCEPT ![t] = ServerErrorResponse]
                    /\ tmpfiles' = RemoveTemp(tmpfiles, t, fails)
                    /\ loc' = [loc EXCEPT ![t].via = via,
                                          ![t].first = None,
                                          ![t].second = None]
                    /\ pc' = [pc EXCEPT ![t] = "done"]
                    /\ UNCHANGED calls
               ELSE IF ~CallsTranslate(req[t].route)
               THEN /\ resp' = [resp EXCEPT ![t] =
                                   ResultResponse(out.text, out.text, out.conf, "en")]
                    /\ tmpfiles' = RemoveTemp(tmpfiles, t, fails)
                    /\ loc' = [loc EXCEPT ![t].text = out.text,
                                          ![t].conf = out.conf,
                                          ![t].via = via,
                                          ![t].first = None,
                                          ![t].second = None]
                    /\ pc' = [pc EXCEPT ![t] = "done"]
                    /\ UNCHANGED calls
               ELSE /\ loc' = [loc EXCEPT ![t].text = out.text,
                                          ![t].conf = out.conf,
                                          ![t].via = via,
                                          ![t].first = None,
                                          ![t].second = None,
                                          ![t].kind = "translator"]
                    /\ calls' = [calls EXCEPT ![t] = @ \cup {"translate_text"}]
                    /\ pc' = [pc EXCEPT ![t] = "init_check1"]
                    /\ UNCHANGED <<resp, tmpfiles>>
    /\ UNCHANGED <<libs, arrived, req, heavy, failed, clientVars>>

\* the server on a POSIX host
Pipe(t) == PipeOn(t, "posix")

\* what happened in translate_text, as the environment saw it
TransVia(translator, raises) ==
    IF translator = None THEN "unavailable"
    ELSE IF raises THEN "threw" ELSE "translated"

\* translate_text after init_translator returned: the None test, the call
\* of translator.translate and its except clause; then the endpoint builds
\* its response and removes the temporary file (finally)
TranslateOn(t, platform) ==
    /\ pc[t] = "translate"
    /\ Scheduled(t)
    /\ \E raises \in BOOLEAN, lang \in Langs,
          fails \in RemoveFails(platform) :
        LET target_lang == normalize_language(lang)
            out == translate_text(loc[t].text, target_lang,
                                  loc[t].translator, raises)
        IN  /\ models' = CacheAfterCall(models, "translator",
                                         TransVia(loc[t].translator, raises))
            /\ req' = [req EXCEPT ![t].lang = lang]
            /\ resp' = [resp EXCEPT ![t] =
                         IF out.raised THEN ServerErrorResponse
                         ELSE ResultResponse(out.text, loc[t].text,
                                             loc[t].conf, target_lang)]
            /\ loc' = [loc EXCEPT ![t].target_lang = target_lang,
                                  ![t].trvia = TransVia(loc[t].translator, raises),
                                  ![t].translator = None]
            /\ tmpfiles' = RemoveTemp(tmpfiles, t, fails)
    /\ calls' = [calls EXCEPT ![t] =
                    IF loc[t].translator = None THEN @
                    ELSE @ \cup {"translator.translate"}]
    /\ pc' = [pc EXCEPT ![t] = "done"]
    /\ UNCHANGED <<libs, arrived, heavy, failed, clientVars>>

\* the server on a POSIX host
Translate(t) == TranslateOn(t, "posix")

\* the response has been sent and the handler thread ends: its locals are
\* gone, and the thread is free for the next request.  A temporary file
\* that the request has left on disk stays there; it belongs to no request
\* any more and is not followed further.
Close(t) ==
    /\ pc[t] = "done"
    /\ Scheduled(t)
    /\ pc' = [pc EXCEPT ![t] = "idle"]
    /\ req' = [req EXCEPT ![t] = NoRequest]
    /\ loc' = [loc EXCEPT ![t] = NoLocals]
    /\ resp' = [resp EXCEPT ![t] = NoResponse]
    /\ calls' = [calls EXCEPT ![t] = {}]
    /\ tmpfiles' = tmpfiles \ {t}
    /\ UNCHANGED <<arrived, models, libs, heavy, failed, clientVars>>

\* ------------------------------------------------------------------------
\* Specification
\* ------------------------------------------------------------------------
Next ==
    \E t \in Threads :
        \/ GetRequest(t)
        \/ PostNoImage(t)
        \/ PostSave(t)
        \/ InitCheck1(t)
        \/ InitCheck2(t)
        \/ InitLib(t)
        \/ InitHeavy1(t)
        \/ InitHeavy2(t)
        \/ InitEval(t)
        \/ InitExc1(t)
        \/ InitExc2(t)
        \/ InitRet1(t)
        \/ InitRet2(t)
        \/ Pipe(t)
        \/ Translate(t)
        \/ Close(t)

Spec == Init /\ [][Next]_vars

\* the server on a Windows host: the same handlers, os.remove can raise
NtNext ==
    \E t \in Threads :
        \/ GetRequest(t)
        \/ PostNoImage(t)
        \/ PostSave(t)
        \/ InitCheck1(t)
        \/ InitCheck2(t)
        \/ InitLib(t)
        \/ InitHeavy1(t)
        \/ InitHeavy2(t)
        \/ InitEval(t)
        \/ InitExc1(t)
        \/ InitExc2(t)
        \/ InitRet1(t)
        \/ InitRet2(t)
        \/ PipeOn(t, "nt")
        \/ TranslateOn(t, "nt")
        \/ Close(t)

NtSpec == Init /\ [][NtNext]_vars

\* ------------------------------------------------------------------------
\* The capture side: pure functions
\* ------------------------------------------------------------------------
\* the paths the server routes (the app.route decorators of server.py, with
\* the language the clients ask for); any other path is answered 404
Routed(endpoint) == endpoint \in {"/caption/en", "/traffic", "/ocr/en"}

\* What an upload can come to: a response with a text to speak, a response
\* whose text is empty or missing, or a failure (network error, timeout,
\* non-2xx status raised by raise_for_status, undecodable body).
UploadOutcomes(endpoint) ==
    IF Routed(endpoint) THEN {"text", "notext", "fails"} ELSE {"fails"}

\* What a device read can come to: a frame stored in latest.jpg, no frame
\* (take_photo returns False), an exception of read or imwrite.  A released
\* capture gives no frame.
PhotoOutcomes(cam) ==
    IF cam = "open" THEN {"ok", "noframe", "raises"} ELSE {"noframe"}

\* the frame a device read of unit u yields: a new one at every read
FrameId(u) == IF u = Main THEN events + 1 ELSE u

\* where the main thread is after construction
MainStart(prog) == IF prog = "client_RPI" THEN "sleep" ELSE "loop"

\* a variant of LockFree for a lock that never blocks
LockFreeAlways(lock) == TRUE

\* `with self.capture_lock:` enters when no thread holds the lock
LockFree(lock) == lock = Free

\* a variant of AfterWith that leaves the lock held when the read failed
AfterWithKeepsOnFailure(shot, holder) ==
    IF shot = "ok" THEN Free ELSE holder

\* a variant of AfterWith for a with block that reaches to the end of
\* capture_and_send
AfterWithHolds(shot, holder) == holder

\* the lock when the with block is left: released, however it is left
AfterWith(shot, holder) == Free

\* a variant of OnNoFrame in which the cycle goes on to the upload
OnNoFrameUploads(prog) == "upload"

\* take_photo returned False: capture_and_send and upload_and_speak return
\* (the button thread ends, run_loop goes on to wait for the interval),
\* client.main sleeps and continues its loop
OnNoFrame(prog) ==
    CASE prog = "client_RPI"        -> "ended"
      [] prog = "client_RPI_serial" -> "wait"
      [] prog = "client"            -> "loop"

\* the device read raised: the button thread dies, run_loop's except clause
\* closes the camera and exits, client.main's except clause sleeps and the
\* loop continues
OnPhotoError(prog) ==
    CASE prog = "client_RPI"        -> "ended"
      [] prog = "client_RPI_serial" -> "exc_close"
      [] prog = "client"            -> "loop"

\* a variant of OnTryError in which upload_and_speak returns like
\* capture_and_send does
OnTryErrorReturns(prog) ==
    CASE prog = "client_RPI"        -> "ended"
      [] prog = "client_RPI_serial" -> "wait"
      [] prog = "client"            -> "loop"

\* The except clause around the upload and the speech: capture_and_send
\* prints and returns, upload_and_speak closes the camera and calls
\* os._exit(1), client.main prints, sleeps and continues its loop.
OnTryError(prog) ==
    CASE prog = "client_RPI"        -> "ended"
      [] prog = "client_RPI_serial" -> "exc_close"
      [] prog = "client"            -> "loop"

\* the cycle is over without an error: the button thread ends, run_loop
\* waits for the interval, client.main sleeps and loops
AfterCycle(prog) ==
    CASE prog = "client_RPI"        -> "ended"
      [] prog = "client_RPI_serial" -> "wait"
      [] prog = "client"            -> "loop"

\* a variant of handle_key in which the first key selected since the
\* default wins
handle_keyFirstWins(ch, endpoint, stopped) ==
    [current_endpoint |->
        CASE endpoint # DefaultEndpoint -> endpoint
          [] ch = "1" -> "/ocr/en"
          [] ch = "2" -> "/traffic"
          [] ch = "3" -> "/search"
          [] OTHER    -> endpoint,
     stop |-> (stopped \/ ch = "q")]

\* a variant of handle_key that does not know the quit key
handle_keyNoQuit(ch, endpoint, stopped) ==
    [current_endpoint |->
        CASE ch = "1" -> "/ocr/en"
          [] ch = "2" -> "/traffic"
          [] ch = "3" -> "/search"
          [] OTHER    -> endpoint,
     stop |-> stopped]

\* SerialClient._handle_key: what it leaves in current_endpoint and _stop
handle_key(ch, endpoint, stopped) ==
    [current_endpoint |->
        CASE ch = "1" -> "/ocr/en"
          [] ch = "2" -> "/traffic"
          [] ch = "3" -> "/search"
          [] OTHER    -> endpoint,
     stop |-> (stopped \/ ch = "q")]

\* a strategy that was tried, and whether it spoke the text
Try(name, spoke) == [name |-> name, spoke |-> spoke]

SpeechResult(text, env, tried, printed, raised) ==
    [called |-> TRUE, text |-> text, env |-> env, tried |-> tried,
     printed |-> printed, raised |-> raised]

\* client_RPI.speak: nothing for an empty text; gTTS with playsound when
\* they are imported, then espeak run with check=False, then print
speak_RPI(text, env) ==
    LET first == IF env.gtts = "absent" THEN <<>>
                 ELSE <<Try("gtts", env.gtts = "ok")>>
    IN  IF text = "" THEN SpeechResult(text, env, <<>>, FALSE, FALSE)
        ELSE IF env.gtts = "ok"
        THEN SpeechResult(text, env, first, FALSE, FALSE)
        ELSE IF env.espeak \in {"ok", "nonzero"}
        THEN SpeechResult(text, env,
                          first \o <<Try("espeak", env.espeak = "ok")>>,
                          FALSE, FALSE)
        ELSE SpeechResult(text, env, first \o <<Try("espeak", FALSE)>>,
                          TRUE, FALSE)

\* client_RPI_serial.speak: nothing for an empty text; espeak run with
\* check=True, then gTTS when it is imported, then print
speak_serial(text, env) ==
    LET first == <<Try("espeak", env.espeak = "ok")>>
    IN  IF text = "" THEN SpeechResult(text, env, <<>>, FALSE, FALSE)
        ELSE IF env.espeak = "ok"
        THEN SpeechResult(text, env, first, FALSE, FALSE)
        ELSE IF env.gtts = "absent"
        THEN SpeechResult(text, env, first, TRUE, FALSE)
        ELSE IF env.gtts = "ok"
        THEN SpeechResult(text, env, first \o <<Try("gtts", TRUE)>>,
                          FALSE, FALSE)
        ELSE SpeechResult(text, env, first \o <<Try("gtts", FALSE)>>,
                          TRUE, FALSE)

\* client.speak_caption: espeak run without check; FileNotFoundError is
\* caught and answered by a notice that does not contain the caption, any
\* other exception leaves the function
speak_caption(text, env) ==
    SpeechResult(text, env, <<Try("espeak", env.espeak = "ok")>>, FALSE,
                 env.espeak = "oserror")

\* the speech function of each program
speak(prog, text, env) ==
    CASE prog = "client_RPI"        -> speak_RPI(text, env)
      [] prog = "client_RPI_serial" -> speak_serial(text, env)
      [] prog = "client"            -> speak_caption(text, env)

\* ------------------------------------------------------------------------
\* The capture side: initial state and steps
\* ------------------------------------------------------------------------
\* the server, which these specifications do not look into
ServerOff ==
    /\ ServerInit
    /\ libs = [blip |-> TRUE, easyocr |-> TRUE, translator |-> TRUE]

\* The client has been constructed: the camera is open, the main thread of
\* client_RPI has registered the button callbacks and sleeps, run_loop and
\* the loop of client.main are about to start.
ClientInit ==
    /\ ServerOff
    /\ program \in Programs
    /\ units = [u \in Units |->
                  IF u = Main THEN [NoUnit EXCEPT !.pc = MainStart(program)]
                  ELSE NoUnit]
    /\ capture_lock = Free
    /\ camera = "open"
    /\ process = "running"
    /\ photo = NoFrame
    /\ current_endpoint =
          IF program = "client_RPI_serial" THEN DefaultEndpoint ELSE "none"
    /\ stop = FALSE
    /\ events = 0
    /\ failedUpload = FALSE
    /\ lastKey = NoKey
    /\ pressed = <<>>
    /\ spoken = NoSpeech

Running == process = "running"

\* a unit that starts a capture cycle for an endpoint, at position p
Cycle(p, endpoint) == [NoUnit EXCEPT !.pc = p, !.endpoint = endpoint]

\* unit u moves to position p; a thread that has ended has no locals
At(u, p) ==
    IF p = "ended" THEN [NoUnit EXCEPT !.pc = "ended"]
    ELSE [units[u] EXCEPT !.pc = p]

\* the process has ended, and its threads and its lock with it
AllGone == [u \in Units |-> [NoUnit EXCEPT !.pc = "gone"]]

\* cb(channel) of make_callback: a button is pressed and the callback
\* starts a thread that runs capture_and_send(endpoint).  The callbacks are
\* registered until GPIO.cleanup.  The endpoint is not used before the
\* upload, so which button it was is left open here ("pin") and drawn in
\* UploadPhoto.
Button(u) ==
    /\ Running
    /\ program = "client_RPI"
    /\ u \in ButtonUnits
    /\ units[Main].pc \in {"sleep", "finally", "return"}
    /\ units[u].pc = "unborn"
    /\ \A v \in ButtonUnits : v < u => units[v].pc # "unborn"
    /\ events < MaxEvents
    /\ events' = events + 1
    /\ units' = [units EXCEPT ![u] = Cycle("acquire", "pin")]
    /\ UNCHANGED <<program, capture_lock, camera, process, photo,
                   current_endpoint, stop, failedUpload, lastKey, spoken,
                   pressed>>
    /\ UNCHANGED serverVars

\* `with self.capture_lock:` is entered
Acquire(u) ==
    /\ Running
    /\ units[u].pc = "acquire"
    /\ LockFree(capture_lock)
    /\ capture_lock' = u
    /\ units' = [units EXCEPT ![u].pc = "read"]
    /\ UNCHANGED <<program, camera, process, photo, current_endpoint, stop,
                   events, failedUpload, lastKey, spoken,
                   pressed>>
    /\ UNCHANGED serverVars

\* take_photo: capture.read() and cv.imwrite(photo_path, frame) come to an
\* end.  In capture_and_send the with block is left next; in the main loops
\* the outcome decides at once how the cycle goes on.
TakePhoto(u) ==
    /\ Running
    /\ units[u].pc = "read"
    /\ \E shot \in PhotoOutcomes(camera) :
        /\ photo' = IF shot = "ok" THEN FrameId(u) ELSE photo
        /\ units' = [units EXCEPT
                ![u].shot = shot,
                ![u].frame = IF shot = "ok" THEN FrameId(u) ELSE NoFrame,
                ![u].pc = CASE u # Main         -> "release"
                            [] shot = "ok"      -> "upload"
                            [] shot = "noframe" -> OnNoFrame(program)
                            [] shot = "raises"  -> OnPhotoError(program)]
    /\ pressed' = IF u = Main THEN <<>> ELSE pressed
    /\ UNCHANGED <<program, capture_lock, camera, process, current_endpoint,
                   stop, events, failedUpload, lastKey, spoken>>
    /\ UNCHANGED serverVars

\* the with block of capture_and_send is left, then `if not ok: return`
Release(u) ==
    /\ Running
    /\ units[u].pc = "release"
    /\ capture_lock' = AfterWith(units[u].shot, capture_lock)
    /\ units' = [units EXCEPT ![u] =
                    At(u, CASE units[u].shot = "ok"      -> "upload"
                            [] units[u].shot = "noframe" -> OnNoFrame(program)
                            [] units[u].shot = "raises"  -> OnPhotoError(program))]
    /\ UNCHANGED <<program, camera, process, photo, current_endpoint, stop,
                   events, failedUpload, lastKey, spoken,
                   pressed>>
    /\ UNCHANGED serverVars

\* upload_photo, or the post of upload_and_speak: latest.jpg is opened and
\* posted, the status is checked and the body decoded, the text is taken
\* from it
UploadPhoto(u) ==
    /\ Running
    /\ units[u].pc = "upload"
    /\ \E endpoint \in Endpoints :
        /\ endpoint = units[u].endpoint
             \/ (units[u].endpoint = "pin" /\ endpoint \in PinEndpoints)
        /\ \E outcome \in UploadOutcomes(endpoint) :
            /\ units' = [units EXCEPT ![u] =
                    At(u, CASE outcome = "text"   -> "speak"
                            [] outcome = "notext" -> AfterCycle(program)
                            [] outcome = "fails"  -> OnTryError(program))]
            /\ failedUpload' = (failedUpload \/ outcome = "fails")
    /\ lastKey' = NoKey
    /\ UNCHANGED <<program, capture_lock, camera, process, photo,
                   current_endpoint, stop, events, spoken,
                   pressed>>
    /\ UNCHANGED serverVars

\* speak(str(text)), speak_caption(caption): called inside the try block of
\* the upload
Speak(u) ==
    /\ Running
    /\ units[u].pc = "speak"
    /\ \E text \in Texts \ {""}, env \in SpeakEnvs :
        units' = [units EXCEPT ![u] =
                    At(u, IF speak(program, text, env).raised
                          THEN OnTryError(program)
                          ELSE AfterCycle(program))]
    /\ UNCHANGED <<program, capture_lock, camera, process, photo,
                   current_endpoint, stop, events, failedUpload, lastKey, spoken,
                   pressed>>
    /\ UNCHANGED serverVars

\* run_loop: `while not self._stop:` and, when the loop goes on, the start
\* of upload_and_speak, which takes the url from current_endpoint
SerialLoop ==
    /\ Running
    /\ program = "client_RPI_serial"
    /\ units[Main].pc = "loop"
    /\ units' = [units EXCEPT ![Main] =
                    IF stop THEN [NoUnit EXCEPT !.pc = "finally"]
                    ELSE Cycle("read", current_endpoint)]
    /\ UNCHANGED <<program, capture_lock, camera, process, photo,
                   current_endpoint, stop, events, failedUpload, lastKey, spoken,
                   pressed>>
    /\ UNCHANGED serverVars

\* a key is read while run_loop waits for the interval, and _handle_key
\* handles it; when it sets _stop the wait ends and the loop test follows
HandleKey ==
    /\ Running
    /\ program = "client_RPI_serial"
    /\ units[Main].pc = "wait"
    /\ events < MaxEvents
    /\ events' = events + 1
    /\ \E ch \in Keys :
        LET after == handle_key(ch, current_endpoint, stop)
        IN  /\ current_endpoint' = after.current_endpoint
            /\ stop' = after.stop
            /\ lastKey' = ch
            /\ pressed' = IF ch \in SelectKeys THEN Append(pressed, ch)
                          ELSE pressed
            /\ units' = [units EXCEPT ![Main].pc =
                            IF after.stop THEN "loop" ELSE "wait"]
    /\ UNCHANGED <<program, capture_lock, camera, process, photo,
                   failedUpload, spoken>>
    /\ UNCHANGED serverVars

\* the interval of run_loop is over: the loop test follows
TimerExpires ==
    /\ Running
    /\ program = "client_RPI_serial"
    /\ units[Main].pc = "wait"
    /\ events < MaxEvents
    /\ events' = events + 1
    /\ units' = [units EXCEPT ![Main].pc = "loop"]
    /\ UNCHANGED <<program, capture_lock, camera, process, photo,
                   current_endpoint, stop, failedUpload, lastKey, spoken,
                   pressed>>
    /\ UNCHANGED serverVars

\* the except clauses of upload_and_speak and of run_loop: self.close()
ExcClose ==
    /\ Running
    /\ units[Main].pc = "exc_close"
    /\ camera' = "released"
    /\ units' = [units EXCEPT ![Main].pc = "exc_exit"]
    /\ UNCHANGED <<program, capture_lock, process, photo, current_endpoint,
                   stop, events, failedUpload, lastKey, spoken,
                   pressed>>
    /\ UNCHANGED serverVars

\* ... then os._exit(1)
ExcExit ==
    /\ Running
    /\ units[Main].pc = "exc_exit"
    /\ process' = "exit1"
    /\ units' = AllGone
    /\ UNCHANGED <<program, capture_lock, camera, photo,
                   current_endpoint, stop, events, failedUpload, lastKey, spoken,
                   pressed>>
    /\ UNCHANGED serverVars

\* an iteration of the loop of client.main starts: the endpoint is
\* /caption/en, or ocr_endpoint (which is "/traffic") when 'd' was pressed
PollLoop ==
    /\ Running
    /\ program = "client"
    /\ units[Main].pc = "loop"
    /\ events < MaxEvents
    /\ events' = events + 1
    /\ \E d \in BOOLEAN :
        units' = [units EXCEPT ![Main] =
                    Cycle("read", IF d THEN "/traffic" ELSE DefaultEndpoint)]
    /\ UNCHANGED <<program, capture_lock, camera, process, photo,
                   current_endpoint, stop, failedUpload, lastKey, spoken,
                   pressed>>
    /\ UNCHANGED serverVars

\* Ctrl-C while the main thread sleeps, waits, reads, uploads or speaks:
\* KeyboardInterrupt is no Exception, so it passes the except clauses of the
\* cycle and ends the loop (run_loop returns, client.main breaks, the main
\* of client_RPI leaves its sleep loop); the finally clause follows.
KeyboardInterrupt ==
    /\ Running
    /\ units[Main].pc \in {"sleep", "wait", "read", "upload", "speak"}
    /\ units' = [units EXCEPT ![Main] = [NoUnit EXCEPT !.pc = "finally"]]
    /\ UNCHANGED <<program, capture_lock, camera, process, photo,
                   current_endpoint, stop, events, failedUpload, lastKey, spoken,
                   pressed>>
    /\ UNCHANGED serverVars

\* the finally clause of main: client.close(), capture.release()
MainClose ==
    /\ Running
    /\ units[Main].pc = "finally"
    /\ camera' = "released"
    /\ units' = [units EXCEPT ![Main].pc = "return"]
    /\ UNCHANGED <<program, capture_lock, process, photo, current_endpoint,
                   stop, events, failedUpload, lastKey, spoken,
                   pressed>>
    /\ UNCHANGED serverVars

\* main returns (after GPIO.cleanup in client_RPI) and the process ends;
\* the button threads are daemon threads and end with it
MainReturn ==
    /\ Running
    /\ units[Main].pc = "return"
    /\ process' = "exit0"
    /\ units' = AllGone
    /\ capture_lock' = Free
    /\ UNCHANGED <<program, camera, photo,
                   current_endpoint, stop, events, failedUpload, lastKey, spoken,
                   pressed>>
    /\ UNCHANGED serverVars

ClientNext ==
    \/ \E u \in Units :
        \/ Button(u)
        \/ Acquire(u)
        \/ TakePhoto(u)
        \/ Release(u)
        \/ UploadPhoto(u)
        \/ Speak(u)
    \/ SerialLoop
    \/ HandleKey
    \/ TimerExpires
    \/ ExcClose
    \/ ExcExit
    \/ PollLoop
    \/ KeyboardInterrupt
    \/ MainClose
    \/ MainReturn

ClientSpec == ClientInit /\ [][ClientNext]_vars

\* A thread that can take a step takes it: a blocked acquire returns once
\* the lock stays free, the device read returns, the post returns or times
\* out (timeout=30 and 15), the speech commands end, the main thread runs
\* on after an exception or when its loop has ended.  Nothing is assumed
\* about the outside: buttons, keys, Ctrl-C, the timer and the next
\* iteration of the polling loop, whose number in a behaviour is bounded.
ClientFairness ==
    /\ \A u \in Units :
        /\ WF_vars(Acquire(u))
        /\ WF_vars(TakePhoto(u))
        /\ WF_vars(Release(u))
        /\ WF_vars(UploadPhoto(u))
        /\ WF_vars(Speak(u))
    /\ WF_vars(SerialLoop)
    /\ WF_vars(ExcClose)
    /\ WF_vars(ExcExit)
    /\ WF_vars(MainClose)
    /\ WF_vars(MainReturn)

ClientFairSpec == ClientSpec /\ ClientFairness

\* The interval of run_loop is over, in a behaviour of any length: MaxEvents
\* bounds what comes from outside, while the timer is the program's own.
TimerRuns ==
    /\ Running
    /\ program = "client_RPI_serial"
    /\ units[Main].pc = "wait"
    /\ units' = [units EXCEPT ![Main].pc = "loop"]
    /\ UNCHANGED <<program, capture_lock, camera, process, photo,
                   current_endpoint, stop, events, failedUpload, lastKey,
                   spoken, pressed>>
    /\ UNCHANGED serverVars

LiveNext == ClientNext \/ TimerRuns

\* The clients with a timer that keeps running.  `while time.time() <
\* end_time` ends: a pass of the wait takes 0.1 s at most (kbhit and sleep,
\* or select with a timeout and a read of what select reported), so the
\* expiry is a step that is taken when it stays possible.
ClientLiveSpec ==
    ClientInit /\ [][LiveNext]_vars /\ ClientFairness /\ WF_vars(TimerRuns)

\* ------------------------------------------------------------------------
\* The speech functions on their own: one call, for every program, text
\* and behaviour of the strategies
\* ------------------------------------------------------------------------
SpeakInit ==
    /\ ServerOff
    /\ program \in Programs
    /\ spoken \in {[NoSpeech EXCEPT !.text = text, !.env = env] :
                        text \in Texts, env \in SpeakEnvs}
    /\ units = [u \in Units |-> NoUnit]
    /\ capture_lock = Free
    /\ camera = "open"
    /\ process = "running"
    /\ photo = NoFrame
    /\ current_endpoint = "none"
    /\ stop = FALSE
    /\ events = 0
    /\ failedUpload = FALSE
    /\ lastKey = NoKey
    /\ pressed = <<>>

\* speak(text), speak_caption(caption)
CallSpeak ==
    /\ ~spoken.called
    /\ spoken' = speak(program, spoken.text, spoken.env)
    /\ UNCHANGED <<program, units, capture_lock, camera, process, photo,
                   current_endpoint, stop, events, failedUpload, lastKey,
                   pressed>>
    /\ UNCHANGED serverVars

SpeakSpec == SpeakInit /\ [][CallSpeak]_vars

\* ------------------------------------------------------------------------
\* Properties
\* ------------------------------------------------------------------------
\* the request of thread t has been answered
Done(t) == pc[t] = "done"

\* the request of thread t is a POST that carries an upload
PostWithUpload(t) ==
    req[t].method = "POST" /\ req[t].field \in {"image", "file"}

\* C1: for every backend kind, the heavy construction (from_pretrained,
\* easyocr.Reader, Translator()) is attempted at most once in the process
\* lifetime, under every interleaving of the requests.
C1_AtMostOneInitAttempt ==
    \A k \in Kinds : heavy[k] <= 1

\* C2: once a heavy construction of a kind has failed, a request that calls
\* that kind's init function afterwards returns the unavailable result and
\* does not come to attempt the construction again.
C2_NoRetryAfterFailure ==
    \A t \in Threads :
        loc[t].late => pc[t] \notin {"init_heavy1", "init_heavy2", "init_eval"}

\* C3: when init returned None, the pipeline function returns the fixed
\* sentinel text of its kind with the fixed fallback confidence of its kind,
\* whatever the image is.
C3_UnavailableGivesSentinel ==
    \A t \in Threads :
        loc[t].via = "unavailable" =>
            /\ loc[t].text =
                 IF req[t].route = "ocr"
                 THEN [body |-> "Sample OCR: The quick brown fox jumps over the lazy dog.",
                       lang |-> "en"]
                 ELSE [body |-> "A sample caption describing the scene.",
                       lang |-> "en"]
            /\ loc[t].conf = IF req[t].route = "ocr" THEN 80 ELSE 50
            /\ (Done(t) => /\ resp[t].text_en = loc[t].text
                           /\ resp[t].confidence = loc[t].conf)
            /\ \A u \in Threads :
                 (loc[u].via = "unavailable" /\ req[u].route = req[t].route)
                     => (loc[u].text = loc[t].text /\ loc[u].conf = loc[t].conf)

\* C3 witness: two OCR requests with different images, both with an
\* unavailable reader, one of them answered
C3_Witness ==
    \E t, u \in Threads :
        /\ Done(t)
        /\ req[t].route = "ocr" /\ req[u].route = "ocr"
        /\ req[t].image = "imgA" /\ req[u].image = "imgB"
        /\ loc[t].via = "unavailable" /\ loc[u].via = "unavailable"

\* C4: when the capability call raises, the pipeline function returns the
\* same (text, confidence) as when the backend is unavailable.
C4_ThrowSameAsUnavailable ==
    \A t \in Threads :
        loc[t].via = "threw" =>
            /\ loc[t].text = UnavailableResult(PipelineOf(req[t].route)).text
            /\ loc[t].conf = UnavailableResult(PipelineOf(req[t].route)).conf

\* C5: the primary text of every degraded result (backend unavailable or
\* capability call raised) is a non-empty string.
C5_FallbackTextNonEmpty ==
    \A t \in Threads :
        (Done(t) /\ loc[t].via \in {"unavailable", "threw"}) =>
            resp[t].text.body # ""

\* C6: when the target language is "en", translate_text does not invoke
\* translator.translate and the translated field equals the *_en field.
C6_EnglishSkipsTranslator ==
    \A t \in Threads :
        (Done(t) /\ loc[t].trvia # "none" /\ loc[t].target_lang = "en") =>
            /\ "translator.translate" \notin calls[t]
            /\ resp[t].text = resp[t].text_en

\* C7: when init_translator returns None or translator.translate raises,
\* translate_text returns its input and does not raise: the response is the
\* result response and its translated field equals its *_en field.
C7_TranslationFailureIsIdentity ==
    \A t \in Threads :
        loc[t].trvia \in {"unavailable", "threw"} =>
            /\ resp[t].status = 200
            /\ resp[t].body = "result"
            /\ resp[t].text = loc[t].text
            /\ resp[t].text = resp[t].text_en

\* C7 witness: a request for Hindi whose translator.translate raised
C7_Witness ==
    \E t \in Threads :
        /\ Done(t)
        /\ loc[t].trvia = "threw"
        /\ loc[t].target_lang = "hi"
        /\ loc[t].via = "live"

\* what C8 says of a state: a GET is answered by the usage descriptor and
\* its handler has called nothing and created no file
GetAnsweredStatically ==
    \A t \in Threads :
        req[t].method = "GET" =>
            /\ Done(t)
            /\ resp[t] = [status |-> 200, body |-> "help", text |-> NoText,
                          text_en |-> NoText, confidence |-> 0,
                          language |-> "none"]
            /\ calls[t] = {}
            /\ t \notin tmpfiles

\* what C8 says of a step: the step that handles a GET leaves _models and
\* the count of heavy constructions unchanged
GetStepLeavesCache ==
    \A t \in Threads :
        (pc[t] = "idle" /\ req'[t].method = "GET") =>
            (models' = models /\ heavy' = heavy /\ failed' = failed)

\* C8: a GET on any of the three routes returns the usage descriptor with or
\* without a payload, calls no init function, pipeline function or
\* translate_text, and leaves the backend cache unchanged.
C8_GetNeverInvokesBackend ==
    [] GetAnsweredStatically /\ [][GetStepLeavesCache]_vars

\* C8 witness: an answered GET that carried an upload, after another request
\* has stored a backend
C8_Witness ==
    \E t \in Threads :
        /\ Done(t)
        /\ req[t].method = "GET"
        /\ req[t].field = "image"
        /\ \E key \in ModelKeys : models[key] # None

\* C9: a POST with neither an 'image' nor a 'file' field is answered 400 with
\* the fixed message; no init function, pipeline function or translate_text
\* is called and no temporary file is created for it.
C9_PostWithoutImageIs400 ==
    \A t \in Threads :
        (req[t].method = "POST" /\ req[t].field = "none") =>
            /\ Done(t)
            /\ resp[t].status = 400
            /\ resp[t].body = "No image provided. Use multipart form 'image' or 'file'."
            /\ calls[t] = {}
            /\ t \notin tmpfiles

\* C9 witness: such a POST, answered while the other thread is inside an
\* init function
C9_Witness ==
    \E t, u \in Threads :
        /\ Done(t)
        /\ req[t].method = "POST" /\ req[t].field = "none"
        /\ req[t].route = "ocr"
        /\ pc[u] = "init_heavy1"

\* C10: every answered POST that carries an upload has a successful response
\* with the four fields, whatever the backend and the translator did.
C10_PostWithPayloadSucceeds ==
    \A t \in Threads :
        (Done(t) /\ PostWithUpload(t)) =>
            /\ resp[t].status = 200
            /\ resp[t].body = "result"
            /\ resp[t].text.lang # "none"
            /\ resp[t].text_en.lang = "en"
            /\ resp[t].confidence \in {0, 50, 80, 85, 90}
            /\ resp[t].language \in {"en", "hi", "te", "fr"}

\* C10 witness: an answered POST whose capability call raised and whose
\* translator.translate raised, after a heavy construction of its backend
\* kind had failed
C10_Witness ==
    \E t \in Threads :
        /\ Done(t) /\ PostWithUpload(t)
        /\ loc[t].via = "threw" /\ loc[t].trvia = "threw"
        /\ failed[PipelineOf(req[t].route)]

\* ------------------------------------------------------------------------
\* Properties of the capture side
\* ------------------------------------------------------------------------
\* unit u is inside take_photo on the shared capture
InRead(u) == units[u].pc = "read"

\* C11: of the threads the button callbacks have started, at most one is
\* inside the device read at any time, and it is the holder of capture_lock.
C11_FrameReadsExclusive ==
    program = "client_RPI" =>
        \A u, v \in ButtonUnits :
            InRead(u) => /\ capture_lock = u
                         /\ (InRead(v) => u = v)

\* C11 witness: one thread is inside the device read while two others wait
\* for the lock
C11_Witness ==
    \E u, v, w \in ButtonUnits :
        /\ program = "client_RPI"
        /\ InRead(u)
        /\ v # w
        /\ units[v].pc = "acquire"
        /\ units[w].pc = "acquire"

\* after an upload of SerialClient has failed, nothing happens but close()
\* and os._exit(1), in this order
SerialFailureEndsRun ==
    (program = "client_RPI_serial" /\ failedUpload) =>
        /\ units[Main].pc \in {"exc_close", "exc_exit", "gone"}
        /\ units[Main].pc = "exc_close" => process = "running"
        /\ units[Main].pc = "exc_exit" =>
                (process = "running" /\ camera = "released")
        /\ units[Main].pc = "gone" =>
                (process = "exit1" /\ camera = "released")

\* C12: in SerialClient a failed upload leads to the end of the process with
\* exit status 1, the camera is released before the process ends, and no
\* device read and no upload is started after the failure.
C12_SerialUploadFailureIsFatal ==
    /\ []SerialFailureEndsRun
    /\ (program = "client_RPI_serial" /\ failedUpload) ~> (process = "exit1")

\* C12 witness: the process has ended with status 1 after an upload failed
\* in a cycle that a key and the timer preceded
C12_Witness ==
    /\ program = "client_RPI_serial"
    /\ failedUpload
    /\ process = "exit1"
    /\ camera = "released"
    /\ events >= 2

\* unit u starts a capture cycle in this step
StartsCycle(u) ==
    /\ units'[u].pc \in {"acquire", "read"}
    /\ units[u].pc \notin {"acquire", "read"}

\* C13: on every client an upload failure is fatal: once an upload has
\* failed, no capture cycle is started any more.
C13_UploadFailureIsFatal ==
    [][failedUpload => \A u \in Units : ~StartsCycle(u)]_vars

\* in a cycle whose device read gave no frame there is no upload and no
\* speech: the unit is about to leave the with block, has returned to the
\* wait of run_loop, or is at the loop test that follows the wait
NoFrameEndsCycle ==
    \A u \in Units :
        /\ units[u].pc \in {"upload", "speak"} => units[u].shot = "ok"
        /\ units[u].shot = "noframe" =>
                /\ units[u].pc \in {"release", "wait", "loop"}
                /\ units[u].pc = "release" => u # Main
                /\ units[u].pc = "loop" => u = Main
                /\ Running

\* the next trigger starts a capture again: the timer of run_loop when the
\* main thread waits, a button when the callbacks are registered
NextTriggerCaptures ==
    events < MaxEvents =>
        /\ (program = "client_RPI_serial" /\ Running /\ units[Main].pc = "wait")
                => ENABLED TimerExpires
        /\ (program = "client_RPI" /\ Running /\ units[Main].pc = "sleep")
                => ENABLED (\E u \in ButtonUnits : Button(u))

\* the step in which a device read gives no frame leaves the process
\* running and the camera as it was
NoFrameStepKeepsCamera ==
    program \in {"client_RPI_serial", "client_RPI"} =>
        \A u \in Units :
            (units'[u].shot = "noframe" /\ units[u].shot # "noframe") =>
                (process' = "running" /\ camera' = camera)

\* C14: in SerialClient and RPICaptureClient, a cycle whose take_photo
\* returned False performs no upload and no speech, does not end the process
\* and does not release the camera, and the next trigger starts a capture.
C14_NoFrameIsRecoverable ==
    /\ [](program \in {"client_RPI_serial", "client_RPI"} =>
            (NoFrameEndsCycle /\ NextTriggerCaptures))
    /\ [][NoFrameStepKeepsCamera]_vars

\* C14 witness: SerialClient reads the device again after the read of the
\* cycle before gave no frame, with the camera still open
C14_Witness ==
    /\ program = "client_RPI_serial"
    /\ units[Main].pc = "wait"
    /\ units[Main].shot = "noframe"
    /\ camera = "open"
    /\ Running
    /\ events >= 1

\* C15: in SerialClient a key overrides the endpoint for one capture only:
\* an upload before which no key was handled since the upload before it
\* goes to the default endpoint /caption/en.
C15_KeyOverridesOneCapture ==
    (program = "client_RPI_serial" /\ units[Main].pc = "upload"
        /\ lastKey = NoKey)
            => units[Main].endpoint = DefaultEndpoint

\* once the quit key has been handled, run_loop is at its loop test or has
\* returned, main's finally clause releases the camera, and the process
\* ends by the return of main
QuitEndsRun ==
    (program = "client_RPI_serial" /\ lastKey = "q") =>
        /\ stop
        /\ units[Main].pc \in {"loop", "finally", "return", "gone"}
        /\ units[Main].pc \in {"loop", "finally"} =>
                (process = "running" /\ camera = "open")
        /\ units[Main].pc = "return" =>
                (process = "running" /\ camera = "released")
        /\ units[Main].pc = "gone" =>
                (process = "exit0" /\ camera = "released")

\* C16: in SerialClient, once the quit key has been handled no device read
\* and no upload is started, run_loop returns, and the camera is released by
\* the finally clause of main before the process ends by main's return, not
\* by os._exit.
C16_QuitIsGraceful ==
    /\ []QuitEndsRun
    /\ (program = "client_RPI_serial" /\ lastKey = "q") ~> (process = "exit0")

\* C16 witness: the process has ended by main's return after the quit key
\* was handled in the wait that followed a second capture cycle
C16_Witness ==
    /\ program = "client_RPI_serial"
    /\ lastKey = "q"
    /\ process = "exit0"
    /\ camera = "released"
    /\ events >= 2

\* the lock is held by a thread that is inside the with block, and by no
\* other
LockHeldInsideWith ==
    \A u \in Units :
        capture_lock = u <=> units[u].pc \in {"read", "release"}

\* C17: in the interrupt-driven client every button event has a thread of
\* its own, which comes to hold the lock and to end its device read unless
\* the process ends; the lock is released on every path out of the with
\* block, and the waiting threads do not block each other for ever.
C17_EveryEventCaptures ==
    /\ [](program = "client_RPI" => LockHeldInsideWith)
    /\ \A u \in ButtonUnits :
            (program = "client_RPI" /\ units[u].pc = "acquire")
                ~> (units[u].pc = "release" \/ ~Running)

\* C17 witness: a thread waits for the lock while the thread that holds it
\* leaves the with block after a failed read, and a third has ended
C17_Witness ==
    \E u, v, w \in ButtonUnits :
        /\ program = "client_RPI"
        /\ Running
        /\ units[u].pc = "acquire"
        /\ units[v].pc = "release"
        /\ units[v].shot # "ok"
        /\ capture_lock = v
        /\ units[w].pc = "ended"

\* the order in which each speech function tries its strategies
SpeechOrder(prog) ==
    CASE prog = "client_RPI"        -> <<"gtts", "espeak">>
      [] prog = "client_RPI_serial" -> <<"espeak", "gtts">>
      [] prog = "client"            -> <<"espeak">>

\* the strategies in tried are in the order of order
InOrder(tried, order) ==
    \A i, j \in 1 .. Len(tried) :
        i < j => \E k, l \in 1 .. Len(order) :
                    /\ k < l
                    /\ order[k] = tried[i].name
                    /\ order[l] = tried[j].name

\* C18: a speech function never raises, whatever its strategies do; it
\* tries them in its fixed order, a later one only after every earlier one
\* has failed to speak; and when none has spoken a non-empty text, the text
\* is printed.
C18_SpeakNeverFails ==
    spoken.called =>
        /\ ~spoken.raised
        /\ InOrder(spoken.tried, SpeechOrder(program))
        /\ \A i \in 1 .. Len(spoken.tried) :
                i < Len(spoken.tried) => ~spoken.tried[i].spoke
        /\ (spoken.text # "" /\ \A i \in 1 .. Len(spoken.tried) :
                                    ~spoken.tried[i].spoke)
                => spoken.printed

\* ------------------------------------------------------------------------
\* Properties of the serving side, continued
\* ------------------------------------------------------------------------
\* C19: every answered POST /traffic that carries an upload has language
\* "en" and a caption equal to caption_en, whatever the backend did, and its
\* handler has neither initialized nor invoked the translator.
C19_TrafficIsEnglishUntranslated ==
    \A t \in Threads :
        (Done(t) /\ PostWithUpload(t) /\ req[t].route = "traffic") =>
            /\ resp[t].status = 200
            /\ resp[t].language = "en"
            /\ resp[t].text = resp[t].text_en
            /\ resp[t].text.lang = "en"
            /\ calls[t] \cap {"translate_text", "init_translator",
                             "translator.translate"} = {}
            /\ loc[t].trvia = "none"

\* C19 witness: an answered POST /traffic with a live caption, while the
\* translator is in the cache, stored for a request before
C19_Witness ==
    \E t \in Threads :
        /\ Done(t) /\ PostWithUpload(t)
        /\ req[t].route = "traffic"
        /\ loc[t].via = "live"
        /\ models["translator"] # None

\* the language code the source's alias table gives for a path segment
CodeOf(lang) ==
    CASE lang = "en"    -> "en"
      [] lang = "Hindi" -> "hi"

\* the text a pipeline function returns, by what happened in it
PipelineOutput(t) ==
    LET k == PipelineOf(req[t].route)
    IN  CASE loc[t].via = "unavailable" -> UnavailableResult(k).text
          [] loc[t].via = "threw"       -> ThrowResult(k).text
          [] loc[t].via = "live"        -> LiveText(k, req[t].image)

\* C20: every answered POST /caption/<lang> and /ocr/<lang> that carries an
\* upload has the language field normalize_language(lang) (an alias name in
\* any case gives its code, a code is kept), the *_en field is the text the
\* pipeline function returned, and the translation, when the translator
\* gave one, is a translation of that text to that code.
C20_LanguageIsNormalized ==
    \A t \in Threads :
        (Done(t) /\ PostWithUpload(t) /\ req[t].route \in {"caption", "ocr"}) =>
            /\ resp[t].status = 200
            /\ resp[t].language = CodeOf(req[t].lang)
            /\ resp[t].text_en = PipelineOutput(t)
            /\ loc[t].trvia = "translated" =>
                    resp[t].text = [body |-> resp[t].text_en.body,
                                    lang |-> CodeOf(req[t].lang)]

\* C20 witness: an answered POST /caption/Hindi with a live caption that the
\* translator translated
C20_Witness ==
    \E t \in Threads :
        /\ Done(t) /\ PostWithUpload(t)
        /\ req[t].route = "caption"
        /\ req[t].lang = "Hindi"
        /\ loc[t].via = "live"
        /\ loc[t].trvia = "translated"
        /\ resp[t].language = "hi"

\* ------------------------------------------------------------------------
\* The cached state of a backend kind
\* ------------------------------------------------------------------------
\* every holder of the kind holds an object
Ready(k) == \A key \in KeysOf(k) : models[key] # None

\* a step from a state in which the kind is Ready leaves its holders as they
\* are
ReadyStays(k) ==
    Ready(k) => \A key \in KeysOf(k) : models'[key] = models[key]

\* what init_blip or init_traffic_blip returned is a whole pair: both None,
\* or the processor and the model of one construction
WholePair(t) ==
    (pc[t] = "pipe" /\ loc[t].kind \in TwoKeyKinds) =>
        loc[t].first = loc[t].second

\* C21: the cached state of a backend kind is written at most once: no step
\* changes a holder of a kind that is Ready, and no request gets a partially
\* written pair from its init function.
C21_ReadyIsPermanent ==
    [][/\ \A k \in Kinds : ReadyStays(k)
       /\ \A t \in Threads : WholePair(t)']_vars

\* a capability call of thread t raises in this step: the pipeline function
\* or translate_text leaves through its except clause
CallThrows(t) ==
    \/ pc[t] = "pipe" /\ loc'[t].via = "threw"
    \/ pc[t] = "translate" /\ loc'[t].trvia = "threw"

\* thread t evaluates the test that guards the initialization, in a state
\* in which the kind is Ready: it goes on to the return statement
ReadySkipsInit(t) ==
    (pc[t] \in {"init_check1", "init_check2"} /\ Ready(loc[t].kind)) =>
        pc'[t] \in {"init_check1", "init_check2", "init_ret1"}

\* C22: a capability call that raises leaves every holder of _models as it
\* is, and a request that finds the kind Ready when it tests the holders
\* goes on to call the capability without a heavy construction.
C22_ThrowLeavesCache ==
    [][\A t \in Threads :
          /\ CallThrows(t) => models' = models
          /\ ReadySkipsInit(t)]_vars

\* C22 witness: the caption call of one request has raised, BLIP has been
\* constructed once and is still Ready, and the init_blip of another
\* request is returning the cached pair
C22_Witness ==
    \E t, u \in Threads :
        /\ Done(t) /\ req[t].route = "caption" /\ loc[t].via = "threw"
        /\ pc[u] = "init_ret2" /\ loc[u].kind = "blip"
        /\ loc[u].first = models["blip_processor"]
        /\ Ready("blip") /\ heavy["blip"] = 1

\* C30: on every host, the temporary file of a POST request with an upload
\* does not exist any more once the request has its response, whether the
\* endpoint returned a result or an exception went through its finally
\* clause.
C30_TempFileRemoved ==
    \A t \in Threads : Done(t) => t \notin tmpfiles

\* ------------------------------------------------------------------------
\* The capture lock and the frame file
\* ------------------------------------------------------------------------
\* unit u is past its device read, in the try block of the upload
InTry(u) == units[u].pc \in {"upload", "speak"}

\* C23: in RPICaptureClient a unit of work that uploads or speaks does not
\* hold the capture lock.
C23_LockOnlyAroundRead ==
    program = "client_RPI" =>
        \A u \in Units : InTry(u) => capture_lock # u

\* C23 witness: a thread is inside the device read, holding the lock, while
\* another thread uploads
C23_Witness ==
    /\ program = "client_RPI"
    /\ \E u, v \in ButtonUnits :
        /\ units[u].pc = "upload"
        /\ InRead(v) /\ capture_lock = v

\* C24: in RPICaptureClient, from the capture of a unit of work to the end
\* of its upload, the frame file that upload_photo opens holds the frame
\* this unit captured.
C24_UploadsOwnFrame ==
    program = "client_RPI" =>
        \A u \in Units : units[u].pc = "upload" => photo = units[u].frame

\* ------------------------------------------------------------------------
\* The selection of the endpoint in SerialClient
\* ------------------------------------------------------------------------
\* the key table of client_RPI_serial, as its module docstring gives it
KeyEndpoint(ch) ==
    CASE ch = "1" -> "/ocr/en"
      [] ch = "2" -> "/traffic"
      [] ch = "3" -> "/search"

\* the capture that follows keys handled since the capture before goes to
\* the endpoint of the last of them
LastKeyWins ==
    (program = "client_RPI_serial" /\ units[Main].pc = "read"
        /\ pressed # <<>>)
            => units[Main].endpoint = KeyEndpoint(pressed[Len(pressed)])

\* a capture of SerialClient uses the endpoint that is selected when it
\* starts
UsesSelectionAtStart ==
    (program = "client_RPI_serial" /\ StartsCycle(Main))
        => units'[Main].endpoint = current_endpoint

\* C25: in SerialClient the capture that follows several endpoint keys
\* uses the endpoint of the last key handled, and every capture uses the
\* endpoint that is selected when it starts.
C25_LastKeyWins ==
    /\ []LastKeyWins
    /\ [][UsesSelectionAtStart]_vars

\* C25 witness: a capture for /traffic starts after key 1 and then key 2
\* were handled in the wait before it
C25_Witness ==
    /\ program = "client_RPI_serial"
    /\ units[Main].pc = "read"
    /\ pressed = <<"1", "2">>
    /\ units[Main].endpoint = "/traffic"

\* ------------------------------------------------------------------------
\* The loop of SerialClient
\* ------------------------------------------------------------------------
\* the main thread has started a capture cycle and is at its device read
CaptureStarts == units[Main].pc = "read"

\* the user has quit: key q was handled, or Ctrl-C has ended run_loop
HasQuit == stop \/ units[Main].pc \in {"finally", "return"} \/ process = "exit0"

\* C26: in SerialClient.run_loop a capture cycle is started again and
\* again, unless the user quits or an upload fails, whatever keys are
\* handled and whatever becomes of the device reads.
C26_CaptureRecurs ==
    (program = "client_RPI_serial") =>
        ([]<>CaptureStarts \/ <>(HasQuit \/ failedUpload))

\* ------------------------------------------------------------------------
\* The order of a capture cycle
\* ------------------------------------------------------------------------
\* unit u is in a capture cycle: capturing (waiting for the lock, reading
\* the device, leaving the with block), uploading or speaking
InCycle(u) == units[u].pc \in {"acquire", "read", "release", "upload", "speak"}

\* unit u is idle: run_loop waits for the interval or is at its loop test,
\* the thread of a button has ended
Idle(u) == units[u].pc \in {"wait", "loop", "ended"}

\* the steps of unit u in and out of the stages of a cycle
CycleOrder(u) ==
    program \in {"client_RPI_serial", "client_RPI"} =>
    /\ (units'[u].pc = "upload" /\ units[u].pc # "upload") =>
            /\ units[u].pc \in {"read", "release"}
            /\ units'[u].shot = "ok"
    /\ (units'[u].pc = "speak" /\ units[u].pc # "speak") =>
            /\ units[u].pc = "upload"
            /\ failedUpload' = failedUpload
    /\ (InCycle(u) /\ ~InCycle(u)' /\ process' = "running"
            /\ units'[u].pc # "finally") =>
            \/ Idle(u)'
            \/ (units[u].pc \in {"upload", "speak"} /\ failedUpload')

\* C27: in SerialClient and RPICaptureClient an upload starts only after
\* the device read of its cycle gave a frame, a speech only after the upload
\* of its cycle succeeded, and a cycle that ends otherwise than by a fatal
\* upload error (or by Ctrl-C) ends in the idle state.
C27_CycleOrder == [][\A u \in Units : CycleOrder(u)]_vars

\* ------------------------------------------------------------------------
\* The endpoints the clients select and the routes of the server
\* ------------------------------------------------------------------------
\* the endpoints the upload of unit u can go to: the one its cycle was
\* started for, any of the pin table when a button started it
Selected(u) ==
    {e \in Endpoints :
        \/ e = units[u].endpoint
        \/ (units[u].endpoint = "pin" /\ e \in PinEndpoints)}

\* C28: every endpoint that a unit of work uploads to (selected by a key of
\* SerialClient, a pin of client_RPI or by default) is a path the server
\* routes, so that the upload can succeed.
C28_SelectedEndpointsRouted ==
    \A u \in Units :
        units[u].pc = "upload" =>
            /\ \A e \in Selected(u) : Routed(e)
            /\ ENABLED (UploadPhoto(u) /\ failedUpload' = failedUpload)

\* ------------------------------------------------------------------------
\* The shutdown of the interrupt-driven client
\* ------------------------------------------------------------------------
\* C29: in client_RPI the camera is open whenever a thread is inside its
\* device read: close() does not release it during a read, and no read is
\* begun after close().
C29_CloseAfterReads ==
    program = "client_RPI" =>
        \A u \in Units : InRead(u) => camera = "open"

====
